---- MODULE Spec2Model ----
(***************************************************************************)
(* Layout and animation timeline engine of puzzle_video_generator.py:      *)
(* the alignment scheduler (_generate_alignment_frames), the three         *)
(* movement generators behind _generate_movement_keyframes, and the        *)
(* piecewise-linear expression of _build_interpolation_expr as the         *)
(* renderer samples it once per output frame (_create_video_ffmpeg).       *)
(*                                                                         *)
(* One run is Init (an instance with its fps and total_frames, and the     *)
(* arguments of the run), then GenerateAlignmentFrames, then the movement  *)
(* generator of the chosen style, then CreateVideo.  Every random.randint  *)
(* of the code is a nondeterministic choice.                               *)
(*                                                                         *)
(* Numbers.  Frames, pixels and degrees are integers as in the code.       *)
(* Times (frame / fps) and interpolated values are exact rationals         *)
(* [num, den]; the floating-point rounding of Python and of the expression *)
(* evaluator is not modelled.  A division by zero inside the expression is *)
(* the outcome "div0" (the evaluator yields inf or NaN there), and an      *)
(* expression the evaluator cannot parse is the outcome "invalid".         *)
(* alignment_hold_time is counted in half seconds, where fps * hold is     *)
(* exact in floating point and int() is the floor.                         *)
(*                                                                         *)
(* A second specification, PlanSpec, follows generate_puzzle_video from    *)
(* the constructor on: the checks of the arguments, the reading of the     *)
(* media sizes, the geometry plan (scaled size, position, cut size, safe   *)
(* zone, cut position), then the schedule, the background removal, the     *)
(* hole, the piece, the keyframes and the video, with real pixel sizes.    *)
(***************************************************************************)
EXTENDS Integers, Sequences, FiniteSets, TLC

\* ------------------------------------------------------------- bounds
\* Largest total_frames of an instance (math.ceil(duration * fps) >= 1).
MaxFrames == 9
\* Largest num_alignments of a run (the code admits up to 20).
MaxAlign == 2
\* Largest fps of an instance (the code admits up to 120).
MaxFps == 2
\* Side of the cut piece, in pixels.
CutSize == 2
\* The alignment target, one pixel inside the canvas on each axis.
AlignX == 1
AlignY == 1
\* How many frames past the last output frame the expression is also
\* evaluated at (the curve is a function of every t, sampled or not).
Overshoot == 2

\* ------------------------------------------------- program constants
\* alignment_hold_time is validated to lie in [0, MaxHoldTime] seconds.
MaxHoldTime == 3
\* approach_frames of every style.
ApproachFrames == 5
\* num_sweeps of the chaotic style without alignments.
NumSweeps == 3
\* random.randint(RotStepMin, RotStepMax) per rotating segment,
\* random.randint(RotFinalMin, RotFinalMax) for the final pose.
RotStepMin == 90
RotStepMax == 270
RotFinalMin == 90
RotFinalMax == 180

\* The canvas leaves two pixels of travel on each axis, so that a position
\* draw has the outcomes 0 and 2 and the alignment target lies between.
CanvasWidth == CutSize + 2
CanvasHeight == CutSize + 2

Styles == {"chaotic", "rotating", "zigzag"}

VARIABLES
    pc,                 \* position of the run in generate_puzzle_video
    fps,                \* self.fps
    total_frames,       \* self.total_frames
    num_alignments,     \* argument of _generate_alignment_frames
    movement_style,     \* argument of _generate_movement_keyframes
    hold_halves,        \* alignment_hold_time, in half seconds
    alignment_frames,   \* the list _generate_alignment_frames returned
    keyframes,          \* the list _generate_movement_keyframes returned
    x_curve,            \* x_expr sampled at t = n/fps, n in 0..total_frames-1
    y_curve,            \* y_expr sampled likewise
    rotation_curve,     \* the rotation expression sampled likewise
    plan                \* generate_puzzle_video's arguments and locals

vars == <<pc, fps, total_frames, num_alignments, movement_style, hold_halves,
          alignment_frames, keyframes, x_curve, y_curve, rotation_curve,
          plan>>

\* ------------------------------------------------------------ helpers
Max(a, b) == IF a >= b THEN a ELSE b
Min(a, b) == IF a <= b THEN a ELSE b
Abs(a) == IF a < 0 THEN -a ELSE a

RECURSIVE GCD(_, _)
GCD(a, b) == IF b = 0 THEN a ELSE GCD(b, a % b)

\* Python's sorted() on a list of integers (insertion into a sorted prefix).
RECURSIVE Insert(_, _)
Insert(s, e) ==
    IF s = <<>> THEN <<e>>
    ELSE IF e < Head(s) THEN <<e>> \o s
    ELSE <<Head(s)>> \o Insert(Tail(s), e)

RECURSIVE Sorted(_)
Sorted(s) == IF s = <<>> THEN <<>> ELSE Insert(Sorted(Tail(s)), Head(s))

\* The outcomes of random.randint(lo, hi) for a position: both ends of the
\* range (the draws in between are not enumerated).
PositionDraws(lo, hi) == {lo, hi}

\* The outcomes of random.randint(lo, hi) for a rotation step: the lower end
\* of the range (one representative; the keyframe frames do not depend on it).
RotationDraws(lo, hi) == {lo}

\* ------------------------------------------- _generate_alignment_frames
\* A faulty segment size: the video divided into num_alignments segments
\* instead of num_alignments + 1.  C3 does not survive it.
SegmentSizeOffByOne(total, n) == total \div n

\* segment_size = self.total_frames // (num_alignments + 1)
SegmentSize(total, n) == total \div (n + 1)

\* The bounds of random.randint for segment i (1-indexed).
AlignmentLow(total, n, i) ==
    i * SegmentSize(total, n) - SegmentSize(total, n) \div 4
AlignmentHigh(total, n, i) ==
    i * SegmentSize(total, n) + SegmentSize(total, n) \div 4

\* Every list the loop "for i in range(1, num_alignments + 1)" can build,
\* from segment i on, in the order of the appends.
RECURSIVE AlignmentDrawsFrom(_, _, _)
AlignmentDrawsFrom(total, n, i) ==
    IF i > n THEN {<<>>}
    ELSE {<<f>> \o rest :
            f \in AlignmentLow(total, n, i) .. AlignmentHigh(total, n, i),
            rest \in AlignmentDrawsFrom(total, n, i + 1)}

\* Every list _generate_alignment_frames(num_alignments) can return.
GenerateAlignmentFramesResults(total, n) ==
    IF n = 0 THEN {<<>>}
    ELSE {Sorted(d) : d \in AlignmentDrawsFrom(total, n, 1)}

\* ------------------------------------------------------ hold_frames
\* A faulty hold: int(self.fps * alignment_hold_time) without the floor of
\* one frame, so that a hold may end on the alignment frame itself.  C2 does
\* not survive it.
HoldFramesNoFloor(f, halves) == (f * halves) \div 2

\* hold_frames with the product rounded up from a half instead of truncated.
HoldFramesRounded(f, halves) == Max((f * halves + 1) \div 2, 1)

\* hold_frames = max(int(self.fps * alignment_hold_time), 1), the hold time
\* given in half seconds.
HoldFrames(f, halves) == Max((f * halves) \div 2, 1)

\* ---------------------------------------------------------- keyframes
Keyframe(f, px, py, rot) == [frame |-> f, x |-> px, y |-> py, rotation |-> rot]

\* The sub-protocol with the keyframes left at a quarter turn.
AlignmentKeyframesRotated(af, hold, ox, oy) ==
    (IF af > ApproachFrames
        THEN <<Keyframe(af - ApproachFrames, ox, oy, RotStepMin)>>
        ELSE <<>>)
    \o <<Keyframe(af, ox, oy, RotStepMin),
          Keyframe(af + hold, ox, oy, RotStepMin)>>

\* The sub-protocol without the test of alignment_frame > approach_frames.
AlignmentKeyframesUnguarded(af, hold, ox, oy) ==
    <<Keyframe(af - ApproachFrames, ox, oy, 0), Keyframe(af, ox, oy, 0),
      Keyframe(af + hold, ox, oy, 0)>>

\* The alignment sub-protocol shared by the three styles: the approach
\* keyframe (only when alignment_frame > approach_frames), the keyframe at
\* the alignment and the keyframe at the end of the hold.
AlignmentKeyframes(af, hold, ox, oy) ==
    (IF af > ApproachFrames
        THEN <<Keyframe(af - ApproachFrames, ox, oy, 0)>>
        ELSE <<>>)
    \o <<Keyframe(af, ox, oy, 0), Keyframe(af + hold, ox, oy, 0)>>

\* Concatenation of a sequence of keyframe lists, in order.
RECURSIVE Concat(_)
Concat(ss) == IF ss = <<>> THEN <<>> ELSE Head(ss) \o Concat(Tail(ss))

\* ------------------------------------------ _generate_chaotic_movement
\* start_y and end_y of sweep or segment i: down on even i, up on odd i.
SweepStartY(i, height, size) == IF i % 2 = 0 THEN 0 ELSE height - size
SweepEndY(i, height, size) == IF i % 2 = 0 THEN height - size ELSE 0

\* A sweep that ends one frame before the next one starts.
ChaoticSweepKeyframesGap(total, height, size, i, sweep_x) ==
    LET frames_per_sweep == total \div NumSweeps
    IN  <<Keyframe(i * frames_per_sweep, sweep_x,
                   SweepStartY(i, height, size), 0),
          Keyframe(IF i < NumSweeps - 1 THEN (i + 1) * frames_per_sweep - 1
                   ELSE total - 1, sweep_x, SweepEndY(i, height, size), 0)>>

\* Without alignments: the two keyframes of sweep i (0-indexed) of
\* num_sweeps, at the drawn sweep_x.
ChaoticSweepKeyframes(total, height, size, i, sweep_x) ==
    LET frames_per_sweep == total \div NumSweeps
        start_frame == i * frames_per_sweep
        end_frame == IF i < NumSweeps - 1 THEN (i + 1) * frames_per_sweep
                     ELSE total - 1
    IN  <<Keyframe(start_frame, sweep_x, SweepStartY(i, height, size), 0),
          Keyframe(end_frame, sweep_x, SweepEndY(i, height, size), 0)>>

\* A faulty segment end: the last segment ends like every other, one frame
\* before the next segment would start.  C5 does not survive it.
ChaoticEndFrameNoLastCase(total, n, i) == (i + 1) * (total \div (n + 1)) - 1

\* end_frame of segment i (0-indexed) of the chaotic style with n alignments:
\* the last segment ends at total_frames - 1.
ChaoticEndFrame(total, n, i) ==
    IF i = n THEN total - 1 ELSE (i + 1) * (total \div (n + 1)) - 1

\* With alignments: the keyframes iteration i of "for i in
\* range(num_alignments + 1)" appends, at the drawn sweep_x.
ChaoticSegmentKeyframes(total, height, size, ox, oy, af, hold, i, sweep_x) ==
    LET n == Len(af)
        frames_per_segment == total \div (n + 1)
        start_frame == i * frames_per_segment
        mid_frame == start_frame + (total - 1 - start_frame) \div 2
        end_frame == ChaoticEndFrame(total, n, i)
        start_y == SweepStartY(i, height, size)
        end_y == SweepEndY(i, height, size)
    IN  <<Keyframe(start_frame, sweep_x, start_y, 0)>>
        \o (IF i < n THEN AlignmentKeyframes(af[i + 1], hold, ox, oy)
            ELSE <<>>)
        \o (IF i = n /\ mid_frame # 0
            THEN <<Keyframe(mid_frame, sweep_x,
                            start_y + (end_y - start_y) \div 2, 0)>>
            ELSE <<>>)
        \o <<Keyframe(end_frame, sweep_x, end_y, 0)>>

\* The list _generate_chaotic_movement returns when the draws of sweep_x
\* are xs[1], xs[2], ... in the order the code draws them.
ChaoticMovement(total, height, size, ox, oy, af, hold, xs) ==
    IF Len(af) = 0
    THEN Concat([k \in 1 .. NumSweeps |->
                    ChaoticSweepKeyframes(total, height, size, k - 1, xs[k])])
    ELSE Concat([k \in 1 .. Len(af) + 1 |->
                    ChaoticSegmentKeyframes(total, height, size, ox, oy, af,
                                            hold, k - 1, xs[k])])

\* How many times _generate_chaotic_movement draws sweep_x.
ChaoticDrawCount(n) == IF n = 0 THEN NumSweeps ELSE n + 1

\* ----------------------------------------- _generate_rotating_movement
\* frames_per_segment of the rotating and zigzag styles.
FramesPerSegment(total, n) == IF n > 0 THEN total \div (n + 1) ELSE total

\* The keyframes appended from iteration i (0-indexed) of "for i in
\* range(num_alignments)" on, then the final pose.  poses[k] holds the draws
\* of iteration k - 1 (x, y, then the rotation step r); final holds the
\* draws of the final pose.
RECURSIVE RotatingFrom(_, _, _, _, _, _, _, _, _, _)
RotatingFrom(total, ox, oy, af, hold, poses, final, i, current_frame, current_rotation) ==
    IF i >= Len(af)
    THEN <<Keyframe(total - 1, final.x, final.y, current_rotation + final.r)>>
    ELSE <<Keyframe(current_frame, poses[i + 1].x, poses[i + 1].y,
                    current_rotation)>>
         \o AlignmentKeyframes(af[i + 1], hold, ox, oy)
         \o RotatingFrom(total, ox, oy, af, hold, poses, final, i + 1,
                Min(current_frame + FramesPerSegment(total, Len(af)),
                    total - 1),
                current_rotation + poses[i + 1].r)

RotatingMovement(total, ox, oy, af, hold, poses, final) ==
    RotatingFrom(total, ox, oy, af, hold, poses, final, 0, 0, 0)

\* The draws of one pose: x, y and a rotation in lo..hi.
PoseDraws(width, height, size, lo, hi) ==
    [x : PositionDraws(0, width - size),
     y : PositionDraws(0, height - size),
     r : RotationDraws(lo, hi)]

\* ------------------------------------------- _generate_zigzag_movement
\* The corner chosen by k % 4: top-left, top-right, bottom-right,
\* bottom-left.
CornerXCounterClockwise(k, width, size) == IF k % 4 \in {2, 3} THEN width - size ELSE 0
CornerX(k, width, size) == IF k % 4 \in {1, 2} THEN width - size ELSE 0
CornerY(k, height, size) == IF k % 4 \in {2, 3} THEN height - size ELSE 0

RECURSIVE ZigzagFrom(_, _, _, _, _, _, _, _, _, _)
ZigzagFrom(total, width, height, size, ox, oy, af, hold, i, current_frame) ==
    IF i >= Len(af)
    THEN <<Keyframe(total - 1, CornerX(Len(af), width, size),
                    CornerY(Len(af), height, size), 0)>>
    ELSE <<Keyframe(current_frame, CornerX(i, width, size),
                    CornerY(i, height, size), 0)>>
         \o AlignmentKeyframes(af[i + 1], hold, ox, oy)
         \o ZigzagFrom(total, width, height, size, ox, oy, af, hold, i + 1,
                Min(current_frame + FramesPerSegment(total, Len(af)),
                    total - 1))

ZigzagMovement(total, width, height, size, ox, oy, af, hold) ==
    ZigzagFrom(total, width, height, size, ox, oy, af, hold, 0, 0)

\* --------------------------------------------------- exact arithmetic
\* The outcomes of evaluating an expression: a rational in lowest terms with
\* a positive denominator, a division by zero, or no value at all because
\* the expression does not parse.
Div0 == [kind |-> "div0", num |-> 0, den |-> 0]
Invalid == [kind |-> "invalid", num |-> 0, den |-> 0]

Rat(n, d) ==
    LET g == GCD(Abs(n), Abs(d))
        sgn == IF d < 0 THEN -1 ELSE 1
    IN  [kind |-> "num", num |-> sgn * (n \div g), den |-> sgn * (d \div g)]

Num(n) == Rat(n, 1)

IsNum(a) == a.kind = "num"

RAdd(a, b) ==
    IF IsNum(a) /\ IsNum(b)
    THEN Rat(a.num * b.den + b.num * a.den, a.den * b.den) ELSE Div0
RSub(a, b) ==
    IF IsNum(a) /\ IsNum(b)
    THEN Rat(a.num * b.den - b.num * a.den, a.den * b.den) ELSE Div0
RMul(a, b) ==
    IF IsNum(a) /\ IsNum(b) THEN Rat(a.num * b.num, a.den * b.den) ELSE Div0
RDiv(a, b) ==
    IF IsNum(a) /\ IsNum(b) /\ b.num # 0
    THEN Rat(a.num * b.den, a.den * b.num) ELSE Div0

\* lt(a, b) of the expression language, on two numbers.
RLtInclusive(a, b) == a.num * b.den <= b.num * a.den
RLt(a, b) == a.num * b.den < b.num * a.den
RLe(a, b) == a.num * b.den <= b.num * a.den

\* ------------------------------------------- _build_interpolation_expr
\* frame / self.fps
FrameTime(frame, f) == Rat(frame, f)

\* Part i (1-indexed) of expr_parts: the first part and every part but the
\* last open an if(lt(t,t2), ... , and wait for their else branch; the last
\* part (when it is not also the first) is the bare interpolation formula.
ExprPartGuarded(len, i) == i = 1 \/ i # len - 1

\* The expression built for one parameter: its parts in order and the number
\* of closing parentheses appended (')' * k is empty for k <= 0).
BuildInterpolationExpr(kfs, param, f) ==
    [parts |-> [i \in 1 .. Len(kfs) - 1 |->
                   [guarded |-> ExprPartGuarded(Len(kfs), i),
                    t1 |-> FrameTime(kfs[i].frame, f),
                    t2 |-> FrameTime(kfs[i + 1].frame, f),
                    v1 |-> Num(kfs[i][param]),
                    v2 |-> Num(kfs[i + 1][param])]],
     closers |-> Max(Len(kfs) - 2, 0)]

\* The text parses as an expression: every part but the last opens an if
\* whose else branch is the rest, the last part is a bare formula, and each
\* opened if is closed.
WellFormed(e) ==
    /\ Len(e.parts) >= 1
    /\ ~e.parts[Len(e.parts)].guarded
    /\ \A k \in 1 .. Len(e.parts) - 1 : e.parts[k].guarded
    /\ e.closers = Len(e.parts) - 1

\* v1 + ((v2 - v1) / (t2 - t1)) * (t - t1)
LinearFormula(part, t) ==
    RAdd(part.v1,
         RMul(RDiv(RSub(part.v2, part.v1), RSub(part.t2, part.t1)),
              RSub(t, part.t1)))

\* The part a nested if(lt(t,t2), ..., ...) evaluates at time t, scanning
\* from part k: the first whose condition holds, or the unguarded last part.
RECURSIVE SelectedPartFrom(_, _, _)
SelectedPartFrom(e, t, k) ==
    IF ~e.parts[k].guarded \/ RLt(t, e.parts[k].t2) THEN k
    ELSE SelectedPartFrom(e, t, k + 1)

SelectedPart(e, t) == SelectedPartFrom(e, t, 1)

\* The value of the expression at time t (seconds).
EvalExpr(e, t) ==
    IF WellFormed(e) THEN LinearFormula(e.parts[SelectedPart(e, t)], t)
    ELSE Invalid

\* The curve of one parameter at output frame n, i.e. at t = n / fps.
CurveAt(kfs, param, f, n) ==
    EvalExpr(BuildInterpolationExpr(kfs, param, f), FrameTime(n, f))

\* The curve of one parameter sampled once per output frame.
SampledCurve(kfs, param, f, total) ==
    LET e == BuildInterpolationExpr(kfs, param, f)
    IN  [n \in 0 .. total - 1 |-> EvalExpr(e, FrameTime(n, f))]

\* ------------------------------------------------------------ the run
Init ==
    /\ pc = "start"
    /\ fps \in 1 .. MaxFps
    /\ total_frames \in 1 .. MaxFrames
    /\ num_alignments \in 0 .. MaxAlign
    /\ movement_style \in Styles
    /\ hold_halves \in 0 .. 2 * MaxHoldTime
    /\ alignment_frames = <<>>
    /\ keyframes = <<>>
    /\ x_curve = <<>>
    /\ y_curve = <<>>
    /\ rotation_curve = <<>>
    /\ plan = <<>>

\* alignment_frames = self._generate_alignment_frames(num_alignments)
GenerateAlignmentFrames ==
    /\ pc = "start"
    /\ alignment_frames' \in
           GenerateAlignmentFramesResults(total_frames, num_alignments)
    /\ pc' = "scheduled"
    /\ UNCHANGED <<plan, fps, total_frames, num_alignments, movement_style,
                   hold_halves, keyframes, x_curve, y_curve, rotation_curve>>

\* _generate_movement_keyframes, movement_style == 'chaotic'
GenerateChaoticMovement ==
    /\ pc = "scheduled"
    /\ movement_style = "chaotic"
    /\ \E xs \in [1 .. ChaoticDrawCount(Len(alignment_frames)) ->
                     PositionDraws(0, CanvasWidth - CutSize)] :
           keyframes' = ChaoticMovement(total_frames, CanvasHeight, CutSize,
                            AlignX, AlignY, alignment_frames,
                            HoldFrames(fps, hold_halves), xs)
    /\ pc' = "moved"
    /\ UNCHANGED <<plan, fps, total_frames, num_alignments, movement_style,
                   hold_halves, alignment_frames, x_curve, y_curve,
                   rotation_curve>>

\* _generate_movement_keyframes, movement_style == 'rotating'
GenerateRotatingMovement ==
    /\ pc = "scheduled"
    /\ movement_style = "rotating"
    /\ \E poses \in [1 .. Len(alignment_frames) ->
                        PoseDraws(CanvasWidth, CanvasHeight, CutSize,
                                  RotStepMin, RotStepMax)],
          final \in PoseDraws(CanvasWidth, CanvasHeight, CutSize,
                              RotFinalMin, RotFinalMax) :
           keyframes' = RotatingMovement(total_frames, AlignX, AlignY,
                            alignment_frames, HoldFrames(fps, hold_halves),
                            poses, final)
    /\ pc' = "moved"
    /\ UNCHANGED <<plan, fps, total_frames, num_alignments, movement_style,
                   hold_halves, alignment_frames, x_curve, y_curve,
                   rotation_curve>>

\* _generate_movement_keyframes, movement_style == 'zigzag'
GenerateZigzagMovement ==
    /\ pc = "scheduled"
    /\ movement_style = "zigzag"
    /\ keyframes' = ZigzagMovement(total_frames, CanvasWidth, CanvasHeight,
                        CutSize, AlignX, AlignY, alignment_frames,
                        HoldFrames(fps, hold_halves))
    /\ pc' = "moved"
    /\ UNCHANGED <<plan, fps, total_frames, num_alignments, movement_style,
                   hold_halves, alignment_frames, x_curve, y_curve,
                   rotation_curve>>

\* _create_video_ffmpeg: the three expressions are built from the keyframes
\* and the renderer evaluates each once per output frame.
CreateVideo ==
    /\ pc = "moved"
    /\ x_curve' = SampledCurve(keyframes, "x", fps, total_frames)
    /\ y_curve' = SampledCurve(keyframes, "y", fps, total_frames)
    /\ rotation_curve' = SampledCurve(keyframes, "rotation", fps, total_frames)
    /\ pc' = "rendered"
    /\ UNCHANGED <<plan, fps, total_frames, num_alignments, movement_style,
                   hold_halves, alignment_frames, keyframes>>

Next ==
    \/ GenerateAlignmentFrames
    \/ GenerateChaoticMovement
    \/ GenerateRotatingMovement
    \/ GenerateZigzagMovement
    \/ CreateVideo

Spec == Init /\ [][Next]_vars

\* ------------------------------------------------------------- claims
Params == {"x", "y", "rotation"}

\* The sampled curve of a parameter, as CreateVideo stored it.
Curve(param) ==
    IF param = "x" THEN x_curve
    ELSE IF param = "y" THEN y_curve ELSE rotation_curve

HasAlignmentFrames == pc \in {"scheduled", "moved", "rendered"}
HasKeyframes == pc \in {"moved", "rendered"}
Rendered == pc = "rendered"

hold_frames == HoldFrames(fps, hold_halves)

\* C1: in every style the keyframe list returned by
\* _generate_movement_keyframes is non-decreasing by frame: each keyframe's
\* frame is >= the frame of the keyframe before it.
C1_KeyframesNonDecreasing ==
    HasKeyframes =>
        \A k \in 1 .. Len(keyframes) - 1 :
            keyframes[k].frame <= keyframes[k + 1].frame

\* C2: in every style and at every alignment frame f the scheduler returned,
\* the x and y curves evaluated at t = f/fps equal the alignment target
\* exactly, also when the keyframes of neighbouring alignments or segments
\* overlap in frame number.
C2_AlignmentExact ==
    Rendered =>
        \A i \in 1 .. Len(alignment_frames) :
            /\ x_curve[alignment_frames[i]] = Num(AlignX)
            /\ y_curve[alignment_frames[i]] = Num(AlignY)

\* A rendered run with two alignments at distinct frames, the second with
\* its approach keyframe, whose keyframes overlap: the hold of the first
\* alignment ends after the second alignment frame, and a keyframe lies past
\* the keyframe that follows it in the list.
C2_Witness ==
    /\ Rendered
    /\ Len(alignment_frames) >= 2
    /\ alignment_frames[1] < alignment_frames[2]
    /\ alignment_frames[2] > ApproachFrames
    /\ alignment_frames[1] + hold_frames > alignment_frames[2]
    /\ \E k \in 1 .. Len(keyframes) - 1 :
           keyframes[k].frame > keyframes[k + 1].frame
    /\ x_curve[alignment_frames[2]] = Num(AlignX)
    /\ y_curve[alignment_frames[2]] = Num(AlignY)

\* C3: _generate_alignment_frames returns a list sorted ascending, with
\* exactly num_alignments entries, each f with 0 <= f < total_frames,
\* whatever the random draws.
C3_ScheduleSortedInRange ==
    HasAlignmentFrames =>
        /\ Len(alignment_frames) = num_alignments
        /\ \A i \in 1 .. Len(alignment_frames) - 1 :
               alignment_frames[i] <= alignment_frames[i + 1]
        /\ \A i \in 1 .. Len(alignment_frames) :
               0 <= alignment_frames[i] /\ alignment_frames[i] < total_frames

\* A schedule drawn with a jitter window wider than one frame, whose last
\* entry is the upper end of the window of the last segment.
C3_Witness ==
    /\ pc = "scheduled"
    /\ Len(alignment_frames) >= 1
    /\ SegmentSize(total_frames, num_alignments) \div 4 >= 1
    /\ alignment_frames[Len(alignment_frames)] =
           AlignmentHigh(total_frames, num_alignments, num_alignments)

\* C4: for num_alignments >= 1 the alignment frames returned are strictly
\* increasing (no two alignments share a frame), also when total_frames is
\* smaller than num_alignments + 1.
C4_ScheduleStrictlyIncreasing ==
    (HasAlignmentFrames /\ num_alignments >= 1) =>
        \A i \in 1 .. Len(alignment_frames) - 1 :
            alignment_frames[i] < alignment_frames[i + 1]

\* C5: in every style, for every total_frames and every alignment-frame
\* list (the empty one too), the last keyframe of the list has frame
\* total_frames - 1.
C5_LastKeyframeAtEnd ==
    HasKeyframes => keyframes[Len(keyframes)].frame = total_frames - 1

\* A chaotic run with alignments and segments of at least one frame: the
\* last segment's end keyframe closes the list at total_frames - 1 although
\* an earlier keyframe (the end of a hold) lies past it.
C5_Witness ==
    /\ pc = "moved"
    /\ movement_style = "chaotic"
    /\ Len(alignment_frames) >= 1
    /\ total_frames > Len(alignment_frames) + 1
    /\ \E k \in 1 .. Len(keyframes) : keyframes[k].frame > total_frames - 1
    /\ keyframes[Len(keyframes)].frame = total_frames - 1

C7_KeyframesInRange ==
    HasKeyframes =>
        \A k \in 1 .. Len(keyframes) :
            0 <= keyframes[k].frame /\ keyframes[k].frame <= total_frames - 1

\* v lies between a and b (either order), as a number.
Between(v, a, b) ==
    IsNum(v) /\ RLe(Num(Min(a, b)), v) /\ RLe(v, Num(Max(a, b)))

\* C8: for any two adjacent keyframes i and i+1 of a generated timeline and
\* each parameter, the interpolation evaluated at t_i = frame_i/fps gives
\* v_i, at t_{i+1} gives v_{i+1}, and at every time strictly between the two
\* a value between v_i and v_{i+1} (here: at every frame time in between).
C8_InterpolationHitsKeyframes ==
    Rendered =>
        \A k \in 1 .. Len(keyframes) - 1 : \A param \in Params :
            /\ CurveAt(keyframes, param, fps, keyframes[k].frame)
                   = Num(keyframes[k][param])
            /\ CurveAt(keyframes, param, fps, keyframes[k + 1].frame)
                   = Num(keyframes[k + 1][param])
            /\ \A n \in keyframes[k].frame + 1 .. keyframes[k + 1].frame - 1 :
                   Between(CurveAt(keyframes, param, fps, n),
                           keyframes[k][param], keyframes[k + 1][param])

\* C9: when two consecutive keyframes share a frame, evaluating the
\* interpolation at any sampled time never divides by zero, and at the
\* shared time it yields the later keyframe's value; the unconditional last
\* segment is included.
C9_SharedFrameNoDivision ==
    Rendered =>
        \A k \in 1 .. Len(keyframes) - 1 :
            keyframes[k].frame = keyframes[k + 1].frame =>
                \A param \in Params :
                    /\ \A n \in 0 .. total_frames - 1 :
                           Curve(param)[n].kind # "div0"
                    /\ keyframes[k].frame \in 0 .. total_frames - 1 =>
                           Curve(param)[keyframes[k].frame]
                               = Num(keyframes[k + 1][param])

\* The last segment's line continued to time n/fps.
ExtrapolatedLast(kfs, param, f, n) ==
    LET e == BuildInterpolationExpr(kfs, param, f)
    IN  LinearFormula(e.parts[Len(e.parts)], FrameTime(n, f))

\* C10: for every keyframe list with at least 2 entries and every t at or
\* after the time of the last keyframe, x, y and rotation alike continue the
\* last segment's slope forward (extrapolation, no clamping).
C10_ExtrapolatesPastEnd ==
    (Rendered /\ Len(keyframes) >= 2) =>
        \A param \in Params :
            \A n \in keyframes[Len(keyframes)].frame ..
                     total_frames - 1 + Overshoot :
                CurveAt(keyframes, param, fps, n)
                    = ExtrapolatedLast(keyframes, param, fps, n)

\* ====================================================================
\* generate_puzzle_video from its first line: the constructor's check of
\* fps, the checks of the arguments, the reading of the two media sizes,
\* the geometry plan and the steps that follow it.  The input files
\* exist and have a supported extension; ffprobe and ffmpeg succeed.
\* Lengths are pixels.  piece_scale is counted in quarters and
\* alignment_hold_time in halves, so that every product below is exact;
\* the float products of the source agree with the exact ones on every
\* input of PlanArgs and Media.

\* the length of the run in seconds, before the cap of DurationLimit
Duration == 7

\* limits of the source
FpsLimit == 120
DurationLimit == 12
CutPercentageLimit == 50
NumAlignmentsLimit == 20
RandomAlignmentsMin == 3
RandomAlignmentsMax == 5
PieceScaleMin == 2
PieceScaleMax == 8
ImageCoverageMin == 50
ImageCoverageMax == 95
MarginLimit == 50
MarginSumLimit == 100
MinImageSide == 100
HeightShare == 95
MinScaledSide == 200
MinCutSize == 50

\* num_alignments=None
None == <<>>

\* ------------------------------------------------ checks of the arguments
\* _validate_inputs: if fps <= 0 or fps > 120: raise ValueError
FpsValid(f) == ~(f <= 0 \/ f > FpsLimit)

CutPercentageValid(a) ==
    ~(a.cut_percentage <= 0 \/ a.cut_percentage > CutPercentageLimit)

NumAlignmentsValid(a) ==
    ~(a.num_alignments # None /\ (a.num_alignments[1] < 1 \/
                                  a.num_alignments[1] > NumAlignmentsLimit))

PieceScaleValid(a) ==
    ~(a.piece_scale < PieceScaleMin \/ a.piece_scale > PieceScaleMax)

HoldTimeValid(a) ==
    ~(a.alignment_hold_time < 0 \/ a.alignment_hold_time > 2 * MaxHoldTime)

ImageCoverageValid(a) ==
    ~(a.image_coverage < ImageCoverageMin \/
      a.image_coverage > ImageCoverageMax)

MarginValid(m) == ~(m < 0 \/ m > MarginLimit)

MarginsValid(a) ==
    /\ MarginValid(a.cut_margin_top)
    /\ MarginValid(a.cut_margin_bottom)
    /\ MarginValid(a.cut_margin_left)
    /\ MarginValid(a.cut_margin_right)

OppositeMarginsValidInclusive(a) ==
    /\ ~(a.cut_margin_top + a.cut_margin_bottom > MarginSumLimit)
    /\ ~(a.cut_margin_left + a.cut_margin_right > MarginSumLimit)

OppositeMarginsValid(a) ==
    /\ ~(a.cut_margin_top + a.cut_margin_bottom >= MarginSumLimit)
    /\ ~(a.cut_margin_left + a.cut_margin_right >= MarginSumLimit)

\* every check of lines 120-168 passes; the first that fails raises
\* ValueError, and all of them come before the first line of geometry
ParametersValid(a) ==
    /\ CutPercentageValid(a)
    /\ NumAlignmentsValid(a)
    /\ PieceScaleValid(a)
    /\ HoldTimeValid(a)
    /\ ImageCoverageValid(a)
    /\ MarginsValid(a)
    /\ OppositeMarginsValid(a)

\* ------------------------------------------------------- the geometry plan
\* target_width = int(bg_width * coverage_decimal)
TargetWidth(bg_width, image_coverage) == (bg_width * image_coverage) \div 100

\* scale = target_width / img_width; int(img_width * scale),
\* int(img_height * scale)
ScaledByWidth(img_width, img_height, target_width) ==
    << (img_width * target_width) \div img_width,
       (img_height * target_width) \div img_width >>

HeightLimitExceededNever(scaled_img_height, bg_height) == FALSE

\* if scaled_img_height > bg_height * 0.95
HeightLimitExceeded(scaled_img_height, bg_height) ==
    scaled_img_height * 100 > bg_height * HeightShare

\* scale = (bg_height * 0.95) / img_height and the two products again
ScaledByHeight(img_width, img_height, bg_height) ==
    << (img_width * bg_height * HeightShare) \div (100 * img_height),
       (img_height * bg_height * HeightShare) \div (100 * img_height) >>

\* <<scaled_img_width, scaled_img_height>>
ScaledSize(bg_width, bg_height, img_width, img_height, image_coverage) ==
    LET first == ScaledByWidth(img_width, img_height,
                               TargetWidth(bg_width, image_coverage))
    IN  IF HeightLimitExceeded(first[2], bg_height)
        THEN ScaledByHeight(img_width, img_height, bg_height)
        ELSE first

\* if scaled_img_width < 200 or scaled_img_height < 200: raise ValueError
ScaledTooSmall(scaled_img_width, scaled_img_height) ==
    scaled_img_width < MinScaledSide \/ scaled_img_height < MinScaledSide

ImageOffsetWhole(bg_side, scaled_side) == bg_side - scaled_side

\* img_x = (bg_width - scaled_img_width) // 2, and img_y likewise
ImageOffset(bg_side, scaled_side) == (bg_side - scaled_side) \div 2

\* base_cut_size = int(min(...) * (cut_percentage / 100));
\* cut_size = int(base_cut_size * piece_scale)
RequestedCutSize(scaled_img_width, scaled_img_height, cut_percentage, piece_scale) ==
    LET base_cut_size ==
            (Min(scaled_img_width, scaled_img_height) * cut_percentage) \div 100
    IN  (base_cut_size * piece_scale) \div 4

ClampCutSizeLowOnly(cut_size, scaled_img_width, scaled_img_height) ==
    IF cut_size < MinCutSize THEN Max(MinCutSize, cut_size) ELSE cut_size

\* the two warnings of lines 239-244
ClampCutSize(cut_size, scaled_img_width, scaled_img_height) ==
    IF cut_size < MinCutSize
    THEN Max(MinCutSize, cut_size)
    ELSE IF cut_size > Min(scaled_img_width, scaled_img_height) \div 2
         THEN Min(scaled_img_width, scaled_img_height) \div 2
         ELSE cut_size

MarginPxUnscaled(scaled_side, margin) == margin

\* margin_top_px = int(scaled_img_height * (cut_margin_top / 100)), ...
MarginPx(scaled_side, margin) == (scaled_side * margin) \div 100

\* available_width = scaled_img_width - margin_left_px - margin_right_px
Available(scaled_side, margin_low_px, margin_high_px) ==
    scaled_side - margin_low_px - margin_high_px

SafeZoneTooSmallBoth(available_width, available_height, cut_size) ==
    available_width < cut_size /\ available_height < cut_size

\* if available_width < cut_size or available_height < cut_size: raise
SafeZoneTooSmall(available_width, available_height, cut_size) ==
    available_width < cut_size \/ available_height < cut_size

CutPositionHighNoSize(margin_low_px, available, cut_size) ==
    margin_low_px + available

\* the upper end of random.randint(margin_left_px, ...)
CutPositionHigh(margin_low_px, available, cut_size) ==
    margin_low_px + available - cut_size

RemoveBackgroundReraise(raised) ==
    IF raised THEN [image |-> "none", aborted |-> TRUE]
    ELSE [image |-> "segmented", aborted |-> FALSE]

\* _remove_background: what no_bg.png holds, and whether the call raised
RemoveBackground(raised) ==
    IF raised THEN [image |-> "original", aborted |-> FALSE]
    ELSE [image |-> "segmented", aborted |-> FALSE]

\* _generate_movement_keyframes: every list the chosen style can return
MovementKeyframes(style, total, width, height, size, ox, oy, af, hold) ==
    CASE style = "chaotic" ->
           { ChaoticMovement(total, height, size, ox, oy, af, hold, xs) :
               xs \in [1 .. ChaoticDrawCount(Len(af)) ->
                          PositionDraws(0, width - size)] }
      [] style = "rotating" ->
           { RotatingMovement(total, ox, oy, af, hold, d[1], d[2]) :
               d \in [1 .. Len(af) ->
                         PoseDraws(width, height, size, RotStepMin,
                                   RotStepMax)]
                     \X PoseDraws(width, height, size, RotFinalMin,
                                  RotFinalMax) }
      [] style = "zigzag" ->
           { ZigzagMovement(total, width, height, size, ox, oy, af, hold) }

\* ------------------------------------------------------------- the inputs
\* the defaults of generate_puzzle_video, with one alignment and the
\* style that draws nothing
BaseArgs ==
    [fps |-> 1, cut_percentage |-> 20, num_alignments |-> <<1>>,
     movement_style |-> "zigzag", piece_scale |-> 4,
     alignment_hold_time |-> 1, image_coverage |-> 80,
     cut_margin_top |-> 10, cut_margin_bottom |-> 45,
     cut_margin_left |-> 20, cut_margin_right |-> 20]

\* <<top, bottom, left, right>>
MarginChoices ==
    { <<10, 45, 20, 20>>, <<0, 0, 0, 0>>, <<10, 10, 10, 10>>,
      <<50, 49, 0, 0>>, <<33, 33, 33, 33>> }

WithMargins(a, m) ==
    [a EXCEPT !.cut_margin_top = m[1], !.cut_margin_bottom = m[2],
              !.cut_margin_left = m[3], !.cut_margin_right = m[4]]

\* arguments in range that vary the geometry
GeometryArgs ==
    { WithMargins([BaseArgs EXCEPT !.cut_percentage = g[1],
                                   !.piece_scale = g[2],
                                   !.image_coverage = g[3]], g[4]) :
        g \in {1, 20, CutPercentageLimit}
              \X {PieceScaleMin, 4, PieceScaleMax}
              \X {ImageCoverageMin, 80, ImageCoverageMax}
              \X MarginChoices }

\* arguments in range that vary the timeline
TimelineArgs ==
    { [BaseArgs EXCEPT !.num_alignments = <<n>>, !.movement_style = s] :
        n \in 1 .. 2, s \in Styles \cup {"random"} }
    \cup { [BaseArgs EXCEPT !.num_alignments = None],
           [BaseArgs EXCEPT !.fps = 2],
           [BaseArgs EXCEPT !.alignment_hold_time = 0],
           [BaseArgs EXCEPT !.alignment_hold_time = 2 * MaxHoldTime] }

\* one argument just outside its range, the others at BaseArgs
RangeArgs ==
    { [BaseArgs EXCEPT !.fps = v] : v \in {0, FpsLimit + 1} }
    \cup { [BaseArgs EXCEPT !.cut_percentage = v] :
             v \in {0, CutPercentageLimit + 1} }
    \cup { [BaseArgs EXCEPT !.num_alignments = <<v>>] :
             v \in {-1, 0, NumAlignmentsLimit + 1} }
    \cup { [BaseArgs EXCEPT !.piece_scale = v] :
             v \in {PieceScaleMin - 1, PieceScaleMax + 1} }
    \cup { [BaseArgs EXCEPT !.alignment_hold_time = v] :
             v \in {-1, 2 * MaxHoldTime + 1} }
    \cup { [BaseArgs EXCEPT !.image_coverage = v] :
             v \in {ImageCoverageMin - 1, ImageCoverageMax + 1} }
    \cup { [BaseArgs EXCEPT !.cut_margin_top = v] :
             v \in {-1, MarginLimit + 1} }
    \cup { [BaseArgs EXCEPT !.cut_margin_bottom = v] :
             v \in {-1, MarginLimit + 1} }
    \cup { [BaseArgs EXCEPT !.cut_margin_left = v] :
             v \in {-1, MarginLimit + 1} }
    \cup { [BaseArgs EXCEPT !.cut_margin_right = v] :
             v \in {-1, MarginLimit + 1} }
    \cup { WithMargins(BaseArgs, m) :
             m \in { <<MarginLimit, MarginLimit, 20, 20>>,
                     <<10, 45, MarginLimit, MarginLimit>> } }

PlanArgs == GeometryArgs \cup TimelineArgs \cup RangeArgs

\* what ffprobe and PIL report for the two input files
BaseMedia == [bg |-> <<1080, 1920>>, img |-> <<800, 1000>>]

Media ==
    { [bg |-> b, img |-> i] :
        b \in { <<1080, 1920>>, <<1920, 1080>>, <<500, 400>> },
        i \in { <<800, 1000>>, <<1000, 250>>, <<300, 300>>, <<99, 500>> } }

\* the locals of generate_puzzle_video before its first assignment
NewPlan(a, m) ==
    [args |-> a, media |-> m,
     bg_width |-> 0, bg_height |-> 0, img_width |-> 0, img_height |-> 0,
     scaled_img_width |-> 0, scaled_img_height |-> 0,
     img_x |-> 0, img_y |-> 0, cut_size |-> 0,
     margin_left_px |-> 0, margin_top_px |-> 0,
     available_width |-> 0, available_height |-> 0,
     cut_x_on_img |-> 0, cut_y_on_img |-> 0, align_x |-> 0, align_y |-> 0,
     no_bg_image |-> "none", main_image_with_hole |-> <<>>,
     cut_piece |-> <<>>, computed |-> {}]

\* ----------------------------------------------------- the planned run
PlanInit ==
    /\ pc = "new"
    /\ \E a \in PlanArgs, m \in Media :
           /\ a \in GeometryArgs \/ m = BaseMedia
           /\ plan = NewPlan(a, m)
    /\ fps = 0
    /\ total_frames = 0
    /\ num_alignments = 0
    /\ movement_style = ""
    /\ hold_halves = 0
    /\ alignment_frames = <<>>
    /\ keyframes = <<>>
    /\ x_curve = <<>>
    /\ y_curve = <<>>
    /\ rotation_curve = <<>>

\* __init__: _validate_inputs, self.fps, the cap of the duration and
\* total_frames = ceil(duration * fps)
Construct ==
    /\ pc = "new"
    /\ IF FpsValid(plan.args.fps)
       THEN /\ fps' = plan.args.fps
            /\ total_frames' = Min(Duration, DurationLimit) * plan.args.fps
            /\ pc' = "constructed"
       ELSE /\ pc' = "config_error"
            /\ UNCHANGED <<fps, total_frames>>
    /\ UNCHANGED <<plan, num_alignments, movement_style, hold_halves,
                   alignment_frames, keyframes, x_curve, y_curve,
                   rotation_curve>>

\* lines 120-180: the checks, then the random style and the random
\* number of alignments
ValidateParameters ==
    /\ pc = "constructed"
    /\ IF ParametersValid(plan.args)
       THEN /\ movement_style' \in
                   IF plan.args.movement_style = "random"
                   THEN Styles ELSE {plan.args.movement_style}
            /\ num_alignments' \in
                   IF plan.args.num_alignments = None
                   THEN RandomAlignmentsMin .. RandomAlignmentsMax
                   ELSE {plan.args.num_alignments[1]}
            /\ hold_halves' = plan.args.alignment_hold_time
            /\ pc' = "validated"
       ELSE /\ pc' = "config_error"
            /\ UNCHANGED <<movement_style, num_alignments, hold_halves>>
    /\ UNCHANGED <<plan, fps, total_frames, alignment_frames, keyframes,
                   x_curve, y_curve, rotation_curve>>

\* lines 193-203: _get_video_dimensions, _get_image_dimensions and the
\* check of the image's size
ReadDimensions ==
    /\ pc = "validated"
    /\ plan' = [plan EXCEPT !.bg_width = plan.media.bg[1],
                            !.bg_height = plan.media.bg[2],
                            !.img_width = plan.media.img[1],
                            !.img_height = plan.media.img[2],
                            !.computed = @ \cup {"dimensions"}]
    /\ pc' = IF plan.media.img[1] < MinImageSide \/
                plan.media.img[2] < MinImageSide
             THEN "image_error" ELSE "measured"
    /\ UNCHANGED <<fps, total_frames, num_alignments, movement_style,
                   hold_halves, alignment_frames, keyframes, x_curve,
                   y_curve, rotation_curve>>

\* lines 205-232: the scaled size, its check and the centred position
PlanLayout ==
    /\ pc = "measured"
    /\ LET scaled == ScaledSize(plan.bg_width, plan.bg_height,
                                plan.img_width, plan.img_height,
                                plan.args.image_coverage)
       IN  IF ScaledTooSmall(scaled[1], scaled[2])
           THEN /\ plan' = [plan EXCEPT !.scaled_img_width = scaled[1],
                                        !.scaled_img_height = scaled[2],
                                        !.computed = @ \cup {"scaled_size"}]
                /\ pc' = "geometry_error"
           ELSE /\ plan' =
                     [plan EXCEPT
                        !.scaled_img_width = scaled[1],
                        !.scaled_img_height = scaled[2],
                        !.img_x = ImageOffset(plan.bg_width, scaled[1]),
                        !.img_y = ImageOffset(plan.bg_height, scaled[2]),
                        !.computed = @ \cup {"scaled_size", "position"}]
                /\ pc' = "laid_out"
    /\ UNCHANGED <<fps, total_frames, num_alignments, movement_style,
                   hold_halves, alignment_frames, keyframes, x_curve,
                   y_curve, rotation_curve>>

\* lines 234-270: the cut size and its clamp, the safe zone and its
\* check, the two draws of the cut position and the alignment target
PlanCut ==
    /\ pc = "laid_out"
    /\ LET sw == plan.scaled_img_width
           sh == plan.scaled_img_height
           cut == ClampCutSize(RequestedCutSize(sw, sh,
                                   plan.args.cut_percentage,
                                   plan.args.piece_scale), sw, sh)
           top == MarginPx(sh, plan.args.cut_margin_top)
           bottom == MarginPx(sh, plan.args.cut_margin_bottom)
           left == MarginPx(sw, plan.args.cut_margin_left)
           right == MarginPx(sw, plan.args.cut_margin_right)
           aw == Available(sw, left, right)
           ah == Available(sh, top, bottom)
           sized == [plan EXCEPT !.cut_size = cut,
                                 !.margin_left_px = left,
                                 !.margin_top_px = top,
                                 !.available_width = aw,
                                 !.available_height = ah,
                                 !.computed = @ \cup {"cut_size", "safe_zone"}]
       IN  IF SafeZoneTooSmall(aw, ah, cut)
           THEN /\ plan' = sized
                /\ pc' = "geometry_error"
           ELSE /\ \E x \in PositionDraws(left, CutPositionHigh(left, aw, cut)),
                      y \in PositionDraws(top, CutPositionHigh(top, ah, cut)) :
                      plan' = [sized EXCEPT
                                 !.cut_x_on_img = x,
                                 !.cut_y_on_img = y,
                                 !.align_x = plan.img_x + x,
                                 !.align_y = plan.img_y + y,
                                 !.computed = @ \cup {"cut_position"}]
                /\ pc' = "planned"
    /\ UNCHANGED <<fps, total_frames, num_alignments, movement_style,
                   hold_halves, alignment_frames, keyframes, x_curve,
                   y_curve, rotation_curve>>

\* line 273
PlanAlignmentFrames ==
    /\ pc = "planned"
    /\ alignment_frames' \in
           GenerateAlignmentFramesResults(total_frames, num_alignments)
    /\ plan' = [plan EXCEPT !.computed = @ \cup {"alignment_frames"}]
    /\ pc' = "scheduled_plan"
    /\ UNCHANGED <<fps, total_frames, num_alignments, movement_style,
                   hold_halves, keyframes, x_curve, y_curve, rotation_curve>>

\* line 283: rembg raises or does not
RemoveBackgroundStep ==
    /\ pc = "scheduled_plan"
    /\ \E raised \in BOOLEAN :
           LET r == RemoveBackground(raised)
           IN  /\ plan' = [plan EXCEPT !.no_bg_image = r.image]
               /\ pc' = IF r.aborted THEN "aborted" ELSE "background_removed"
    /\ UNCHANGED <<fps, total_frames, num_alignments, movement_style,
                   hold_halves, alignment_frames, keyframes, x_curve,
                   y_curve, rotation_curve>>

\* line 287: _create_main_image_with_hole
CreateMainImageWithHole ==
    /\ pc = "background_removed"
    /\ plan' = [plan EXCEPT
                  !.main_image_with_hole =
                      << plan.no_bg_image, plan.scaled_img_width,
                         plan.scaled_img_height, plan.cut_x_on_img,
                         plan.cut_y_on_img, plan.cut_size >>,
                  !.computed = @ \cup {"hole"}]
    /\ pc' = "hole_created"
    /\ UNCHANGED <<fps, total_frames, num_alignments, movement_style,
                   hold_halves, alignment_frames, keyframes, x_curve,
                   y_curve, rotation_curve>>

\* line 293: _extract_cut_piece_from_image
ExtractCutPiece ==
    /\ pc = "hole_created"
    /\ plan' = [plan EXCEPT
                  !.cut_piece =
                      << plan.no_bg_image, plan.cut_x_on_img,
                         plan.cut_y_on_img, plan.cut_size >>,
                  !.computed = @ \cup {"piece"}]
    /\ pc' = "piece_extracted"
    /\ UNCHANGED <<fps, total_frames, num_alignments, movement_style,
                   hold_halves, alignment_frames, keyframes, x_curve,
                   y_curve, rotation_curve>>

\* line 298
PlanMovementKeyframes ==
    /\ pc = "piece_extracted"
    /\ keyframes' \in
           MovementKeyframes(movement_style, total_frames, plan.bg_width,
               plan.bg_height, plan.cut_size, plan.align_x, plan.align_y,
               alignment_frames, HoldFrames(fps, hold_halves))
    /\ plan' = [plan EXCEPT !.computed = @ \cup {"keyframes"}]
    /\ pc' = "keyframes_generated"
    /\ UNCHANGED <<fps, total_frames, num_alignments, movement_style,
                   hold_halves, alignment_frames, x_curve, y_curve,
                   rotation_curve>>

\* lines 304-309: _create_video_ffmpeg and the removal of temp_frames
PlanCreateVideo ==
    /\ pc = "keyframes_generated"
    /\ x_curve' = SampledCurve(keyframes, "x", fps, total_frames)
    /\ y_curve' = SampledCurve(keyframes, "y", fps, total_frames)
    /\ rotation_curve' = SampledCurve(keyframes, "rotation", fps, total_frames)
    /\ plan' = [plan EXCEPT !.computed = @ \cup {"video"}]
    /\ pc' = "done"
    /\ UNCHANGED <<fps, total_frames, num_alignments, movement_style,
                   hold_halves, alignment_frames, keyframes>>

PlanNext ==
    \/ Construct
    \/ ValidateParameters
    \/ ReadDimensions
    \/ PlanLayout
    \/ PlanCut
    \/ PlanAlignmentFrames
    \/ RemoveBackgroundStep
    \/ CreateMainImageWithHole
    \/ ExtractCutPiece
    \/ PlanMovementKeyframes
    \/ PlanCreateVideo

PlanSpec == PlanInit /\ [][PlanNext]_vars

\* ------------------------------------------- claims about the planned run
\* the geometry plan went through: the cut position has been drawn
PlanSucceeded == "cut_position" \in plan.computed

\* the scale derived from the width gave a height above the height limit,
\* so the scale in use is the one derived from the height
HeightDerivedScale ==
    HeightLimitExceeded(
        ScaledByWidth(plan.img_width, plan.img_height,
            TargetWidth(plan.bg_width, plan.args.image_coverage))[2],
        plan.bg_height)

\* C11: whenever the geometry plan goes through, the scaled image is no
\* wider than the canvas and no taller than 95% of the canvas height,
\* whether the scale came from the width or from the height.
C11_ScaledWithinCanvas ==
    PlanSucceeded =>
        /\ plan.scaled_img_width <= plan.bg_width
        /\ plan.scaled_img_height * 100 <= plan.bg_height * HeightShare

\* a plan that went through with the scale derived from the height
C11_Witness == PlanSucceeded /\ HeightDerivedScale

\* a plan that went through with the scale derived from the width
C11_WitnessWidth == PlanSucceeded /\ ~HeightDerivedScale

\* the cut size before the clamp of lines 239-244
requested_cut_size ==
    RequestedCutSize(plan.scaled_img_width, plan.scaled_img_height,
                     plan.args.cut_percentage, plan.args.piece_scale)

\* C12: whenever the geometry plan goes through, cut_size is at least 50
\* and at most half the shorter scaled side; a clamped cut size is not a
\* failure: the only failure after the cut size is set is the safe zone's.
C12_CutSizeClamped ==
    /\ PlanSucceeded =>
           /\ MinCutSize <= plan.cut_size
           /\ 2 * plan.cut_size <=
                  Min(plan.scaled_img_width, plan.scaled_img_height)
    /\ (pc = "geometry_error" /\ "cut_size" \in plan.computed) =>
           SafeZoneTooSmall(plan.available_width, plan.available_height,
                            plan.cut_size)

\* a plan that went through with the cut size clamped down to half the
\* shorter side
C12_Witness ==
    /\ PlanSucceeded
    /\ requested_cut_size >
           Min(plan.scaled_img_width, plan.scaled_img_height) \div 2
    /\ plan.cut_size # requested_cut_size

\* a plan that went through with the cut size clamped up to 50
C12_WitnessLow ==
    PlanSucceeded /\ requested_cut_size < MinCutSize /\ plan.cut_size = MinCutSize

\* C13: whenever the geometry plan goes through, the drawn cut position
\* lies between the safe zone's left (top) edge and that edge plus the
\* safe zone's width (height) minus cut_size, whatever the two draws.
C13_CutInsideSafeZone ==
    PlanSucceeded =>
        /\ plan.margin_left_px <= plan.cut_x_on_img
        /\ plan.cut_x_on_img <=
               plan.margin_left_px + plan.available_width - plan.cut_size
        /\ plan.margin_top_px <= plan.cut_y_on_img
        /\ plan.cut_y_on_img <=
               plan.margin_top_px + plan.available_height - plan.cut_size

\* the draws took the far end of a range of more than one position, in a
\* safe zone that starts inside the image
C13_Witness ==
    /\ PlanSucceeded
    /\ plan.margin_left_px > 0
    /\ plan.margin_top_px > 0
    /\ plan.cut_x_on_img > plan.margin_left_px
    /\ plan.cut_y_on_img > plan.margin_top_px
    /\ plan.cut_x_on_img + plan.cut_size =
           plan.margin_left_px + plan.available_width

\* 100 times the distance between the safe zone's side as the code
\* computes it and scaled_side * (1 - (low + high) / 100)
SafeZoneError(available, scaled_side, margin_low, margin_high) ==
    Abs(100 * available - scaled_side * (100 - margin_low - margin_high))

\* C14, as stated: once the safe zone is computed, its width and its
\* height are within 1 pixel of scaled_side * (1 - (margins) / 100).
C14_SafeZoneWithinOnePixel ==
    "safe_zone" \in plan.computed =>
        /\ SafeZoneError(plan.available_width, plan.scaled_img_width,
               plan.args.cut_margin_left, plan.args.cut_margin_right) <= 100
        /\ SafeZoneError(plan.available_height, plan.scaled_img_height,
               plan.args.cut_margin_top, plan.args.cut_margin_bottom) <= 100

\* C14, amended: once the safe zone is computed, its width and its height
\* are within 2 pixels of scaled_side * (1 - (margins) / 100): each of the
\* two pixel margins is truncated on its own.
C14_SafeZoneWithinTwoPixels ==
    "safe_zone" \in plan.computed =>
        /\ SafeZoneError(plan.available_width, plan.scaled_img_width,
               plan.args.cut_margin_left, plan.args.cut_margin_right) <= 200
        /\ SafeZoneError(plan.available_height, plan.scaled_img_height,
               plan.args.cut_margin_top, plan.args.cut_margin_bottom) <= 200

\* a safe zone whose width is more than 1 pixel from the exact value
C14_Witness ==
    /\ "safe_zone" \in plan.computed
    /\ SafeZoneError(plan.available_width, plan.scaled_img_width,
           plan.args.cut_margin_left, plan.args.cut_margin_right) > 100

\* a scaled side is below 200 px
ScaledBelowMinimum ==
    /\ "scaled_size" \in plan.computed
    /\ \/ plan.scaled_img_width < MinScaledSide
       \/ plan.scaled_img_height < MinScaledSide

\* the safe zone is narrower or shorter than the cut
SafeZoneBelowCut ==
    /\ "safe_zone" \in plan.computed
    /\ \/ plan.available_width < plan.cut_size
       \/ plan.available_height < plan.cut_size

\* C15: when a scaled side is below 200 px, or the safe zone is narrower
\* or shorter than cut_size, the plan has failed with an error, and in
\* that error state no cut position has been drawn and no alignment
\* frames or keyframes have been generated.
C15_GeometryErrorBeforeDraw ==
    /\ (ScaledBelowMinimum \/ SafeZoneBelowCut) => pc = "geometry_error"
    /\ pc = "geometry_error" =>
           /\ plan.computed \cap
                  {"cut_position", "alignment_frames", "keyframes"} = {}
           /\ alignment_frames = <<>>
           /\ keyframes = <<>>

\* the plan failed on a safe zone that is wide enough and too short
C15_Witness ==
    /\ pc = "geometry_error"
    /\ SafeZoneBelowCut
    /\ plan.available_width >= plan.cut_size

\* the plan failed on a scaled side below 200 px
C15_WitnessScaled == pc = "geometry_error" /\ ScaledBelowMinimum

\* an argument is outside its documented range: fps outside 1..120,
\* cut_percentage outside (0,50], a margin outside [0,50], opposite
\* margins summing to 100 or more, piece_scale outside [0.5,2.0],
\* num_alignments given and outside 0..20, image_coverage outside
\* [50,95], alignment_hold_time outside [0,3]
OutOfRange(a) ==
    \/ a.fps < 1 \/ a.fps > 120
    \/ a.cut_percentage <= 0 \/ a.cut_percentage > 50
    \/ \E m \in {a.cut_margin_top, a.cut_margin_bottom,
                 a.cut_margin_left, a.cut_margin_right} : m < 0 \/ m > 50
    \/ a.cut_margin_top + a.cut_margin_bottom >= 100
    \/ a.cut_margin_left + a.cut_margin_right >= 100
    \/ a.piece_scale < 2 \/ a.piece_scale > 8
    \/ (a.num_alignments # None /\
           (a.num_alignments[1] < 0 \/ a.num_alignments[1] > 20))
    \/ a.image_coverage < 50 \/ a.image_coverage > 95
    \/ a.alignment_hold_time < 0 \/ a.alignment_hold_time > 6

\* nothing of the geometry or the timeline has been read or derived
NothingComputed ==
    /\ plan.computed = {}
    /\ plan.bg_width = 0 /\ plan.img_width = 0
    /\ alignment_frames = <<>>
    /\ keyframes = <<>>

\* C16: a run with an argument outside its documented range never gets
\* past the checks: it is before them or in the configuration error, with
\* no media size read and no layout, cut or keyframe value derived, and
\* the step that checks the argument ends in the configuration error.
C16_ConfigErrorBeforeGeometry ==
    /\ [](OutOfRange(plan.args) =>
            /\ pc \in {"new", "constructed", "config_error"}
            /\ NothingComputed)
    /\ [][(OutOfRange(plan.args) /\ pc = "constructed") =>
            pc' = "config_error"]_vars
    /\ [][(pc = "new" /\ (plan.args.fps < 1 \/ plan.args.fps > 120)) =>
            pc' = "config_error"]_vars

\* the run ended in the configuration error on two opposite margins that
\* are each in range and sum to 100
C16_Witness ==
    /\ pc = "config_error"
    /\ NothingComputed
    /\ MarginsValid(plan.args)
    /\ \/ plan.args.cut_margin_top + plan.args.cut_margin_bottom >= 100
       \/ plan.args.cut_margin_left + plan.args.cut_margin_right >= 100

\* the constructor ended the run on fps above 120
C16_WitnessFps == pc = "config_error" /\ plan.args.fps > 120 /\ fps = 0

\* C17: a background removal that raises does not end the run: the
\* working image is then the original image, and the run goes on with
\* that image through the hole, the piece, the keyframes and the video.
C17_BackgroundFailureContinues ==
    /\ [](/\ pc # "aborted"
          /\ pc \in {"background_removed", "hole_created",
                     "piece_extracted", "keyframes_generated", "done"} =>
                 plan.no_bg_image \in {"segmented", "original"}
          /\ "hole" \in plan.computed =>
                 plan.main_image_with_hole[1] = plan.no_bg_image
          /\ "piece" \in plan.computed =>
                 plan.cut_piece[1] = plan.no_bg_image)
    /\ [][(pc = "scheduled_plan") => pc' = "background_removed"]_vars
    /\ [][(pc = "background_removed" /\ plan.no_bg_image = "original") =>
            (pc' = "hole_created" /\ plan'.no_bg_image = "original")]_vars

\* the run finished with the original image as the working image: the
\* hole and the piece were made from it, and the keyframes and the video
\* were generated
C17_Witness ==
    /\ pc = "done"
    /\ plan.no_bg_image = "original"
    /\ plan.main_image_with_hole[1] = "original"
    /\ plan.cut_piece[1] = "original"
    /\ {"hole", "piece", "keyframes", "video"} \subseteq plan.computed
    /\ Len(keyframes) > 0
    /\ DOMAIN x_curve = 0 .. total_frames - 1

\* the run of the example: canvas 1080x1920, source 800x1000, coverage 80
ExampleRun ==
    /\ plan.media.bg = <<1080, 1920>>
    /\ plan.media.img = <<800, 1000>>
    /\ plan.args.image_coverage = 80

\* v is the floor of half of d
FloorOfHalf(v, d) == 2 * v <= d /\ d < 2 * v + 2

\* C19: in the example run the layout is 864 wide and 1080 high at offset
\* (108, 420), and in every run the offset is the floor of half the canvas
\* space the scaled image leaves over on each axis.
C19_ExampleLayout ==
    "position" \in plan.computed =>
        /\ ExampleRun =>
               /\ plan.scaled_img_width = 864
               /\ plan.scaled_img_height = 1080
               /\ plan.img_x = 108
               /\ plan.img_y = 420
        /\ FloorOfHalf(plan.img_x, plan.bg_width - plan.scaled_img_width)
        /\ FloorOfHalf(plan.img_y, plan.bg_height - plan.scaled_img_height)

\* the layout of the example run has been computed
C19_Witness == ExampleRun /\ "position" \in plan.computed

\* a layout whose leftover height is odd, so that the floor drops a half
C19_WitnessOdd ==
    /\ "position" \in plan.computed
    /\ (plan.bg_height - plan.scaled_img_height) % 2 = 1

\* ---------------------------------------- claims about the keyframe list
\* how many of the first i alignment frames have an approach keyframe
ApproachCount(i) ==
    Cardinality({j \in 1 .. i : alignment_frames[j] > 5})

\* where the keyframe of the i-th alignment stands in the list: behind the
\* keyframes of the segments before it (a start, the alignment's keyframes
\* and, in the chaotic style, an end), its segment's start keyframe and
\* its approach keyframe
ArrivalIndex(i) ==
    (i - 1) * (IF movement_style = "chaotic" THEN 4 ELSE 3)
        + 1 + ApproachCount(i) + 1

AtTarget(kf) == kf.x = AlignX /\ kf.y = AlignY

\* C20: in every style and for each alignment frame f, the list holds, one
\* after the other, an approach keyframe at f - 5 (only when f > 5; when
\* f <= 5 the arrival comes right after the segment's start keyframe), an
\* arrival keyframe at f and a hold keyframe at f + hold_frames with
\* hold_frames >= 1, all of them at the alignment target.
C20_AlignmentKeyframesInOrder ==
    HasKeyframes =>
        \A i \in 1 .. Len(alignment_frames) :
            LET f == alignment_frames[i]
                k == ArrivalIndex(i)
            IN  /\ k + 1 <= Len(keyframes)
                /\ hold_frames >= 1
                /\ keyframes[k].frame = f
                /\ AtTarget(keyframes[k])
                /\ keyframes[k + 1].frame = f + hold_frames
                /\ AtTarget(keyframes[k + 1])
                /\ f > 5 => /\ keyframes[k - 1].frame = f - 5
                            /\ AtTarget(keyframes[k - 1])

\* keyframes of a style with two alignments, the first without an
\* approach keyframe and the second with one
C20_WitnessOf(style) ==
    /\ HasKeyframes
    /\ movement_style = style
    /\ Len(alignment_frames) = 2
    /\ alignment_frames[1] <= 5
    /\ alignment_frames[1] > 0
    /\ alignment_frames[2] > 5

C20_Witness == C20_WitnessOf("chaotic")

C20_WitnessRotating == C20_WitnessOf("rotating")

C20_WitnessZigzag == C20_WitnessOf("zigzag")

\* ------------------------------------------- claims about the hold
\* the hold frames a style used for its i-th alignment: the distance from
\* the arrival keyframe to the hold keyframe that follows it in the list
UsedHoldFrames(i) ==
    keyframes[ArrivalIndex(i) + 1].frame - keyframes[ArrivalIndex(i)].frame

\* round(n / d) for n >= 0 and d > 0, a half going to the even neighbour
RoundHalfEven(n, d) ==
    LET q == n \div d
        r == n % d
    IN  IF 2 * r < d THEN q
        ELSE IF 2 * r > d THEN q + 1
        ELSE IF q % 2 = 0 THEN q ELSE q + 1

\* C21, as stated: in every style the hold lasts
\* max(round(fps * alignment_hold_time), 1) frames.
C21_HoldFramesRounded ==
    HasKeyframes =>
        \A i \in 1 .. Len(alignment_frames) :
            UsedHoldFrames(i) = Max(RoundHalfEven(fps * hold_halves, 2), 1)

\* C21, amended: in every style the hold lasts
\* max(int(fps * alignment_hold_time), 1) frames, the product truncated
\* and not rounded.
C21_HoldFramesTruncated ==
    HasKeyframes =>
        \A i \in 1 .. Len(alignment_frames) :
            UsedHoldFrames(i) = Max((fps * hold_halves) \div 2, 1)

\* keyframes with an alignment whose hold time is a whole number of frames
\* and a half, so that truncating and rounding differ
C21_Witness ==
    /\ HasKeyframes
    /\ Len(alignment_frames) > 0
    /\ (fps * hold_halves) % 2 = 1
    /\ fps * hold_halves >= 3
    /\ UsedHoldFrames(1) = (fps * hold_halves - 1) \div 2

\* ------------------------------ claims about the styles' own keyframes
\* the chaotic style ran on an empty list of alignment frames
ChaoticWithoutAlignments ==
    HasKeyframes /\ movement_style = "chaotic" /\ alignment_frames = <<>>

\* C22: with no alignment frames the chaotic style returns exactly 3
\* sweeps, each a start and an end keyframe with one x; the sweeps go
\* down, up, down between y = 0 and y = height - size; the first starts
\* at frame 0, each starts at the frame where the one before ends, and
\* the last ends at total_frames - 1.
C22_ThreeSweeps ==
    ChaoticWithoutAlignments =>
        /\ Len(keyframes) = 2 * 3
        /\ \A s \in 1 .. 3 :
               /\ keyframes[2 * s - 1].x = keyframes[2 * s].x
               /\ keyframes[2 * s - 1].y =
                      (IF s \in {1, 3} THEN 0 ELSE CanvasHeight - CutSize)
               /\ keyframes[2 * s].y =
                      (IF s \in {1, 3} THEN CanvasHeight - CutSize ELSE 0)
               /\ s > 1 => keyframes[2 * s - 1].frame =
                               keyframes[2 * s - 2].frame
        /\ keyframes[1].frame = 0
        /\ keyframes[6].frame = total_frames - 1

\* three sweeps over a run long enough for each to last several frames,
\* with different x
C22_Witness ==
    /\ ChaoticWithoutAlignments
    /\ total_frames >= 6
    /\ keyframes[1].frame < keyframes[2].frame
    /\ keyframes[3].frame < keyframes[4].frame
    /\ keyframes[5].frame < keyframes[6].frame
    /\ keyframes[1].x # keyframes[3].x

\* C23: in the rotating style every approach, arrival and hold keyframe
\* has rotation 0, and the rotation curve sampled at every alignment frame
\* is 0, whatever rotation the segment-start keyframes around it carry.
C23_UnrotatedWhenAligned ==
    /\ (HasKeyframes /\ movement_style = "rotating") =>
           \A i \in 1 .. Len(alignment_frames) :
               LET k == ArrivalIndex(i)
               IN  /\ keyframes[k].rotation = 0
                   /\ keyframes[k + 1].rotation = 0
                   /\ alignment_frames[i] > 5 => keyframes[k - 1].rotation = 0
    /\ (Rendered /\ movement_style = "rotating") =>
           \A i \in 1 .. Len(alignment_frames) :
               rotation_curve[alignment_frames[i]] = Num(0)

\* a rendered rotating run whose second alignment comes after a
\* segment-start keyframe that is rotated and before the rotated final
\* keyframe, with its approach keyframe
C23_Witness ==
    /\ Rendered
    /\ movement_style = "rotating"
    /\ Len(alignment_frames) = 2
    /\ alignment_frames[1] < alignment_frames[2]
    /\ alignment_frames[2] > 5
    /\ keyframes[ArrivalIndex(2) - 2].rotation > 0
    /\ keyframes[Len(keyframes)].rotation > 0
    /\ rotation_curve[alignment_frames[2]] = Num(0)

\* ------------------------------------------------- the zigzag runs
\* Largest num_alignments of a zigzag run: enough for the corners to come
\* round to the first one again.
MaxZigzagAlign == 5

\* runs of the zigzag style, which draws nothing of its own, with more
\* alignments than Init allows
ZigzagInit ==
    /\ pc = "start"
    /\ fps \in 1 .. MaxFps
    /\ total_frames \in 1 .. MaxFrames
    /\ num_alignments \in 0 .. MaxZigzagAlign
    /\ movement_style = "zigzag"
    /\ hold_halves \in 0 .. 2 * MaxHoldTime
    /\ alignment_frames = <<>>
    /\ keyframes = <<>>
    /\ x_curve = <<>>
    /\ y_curve = <<>>
    /\ rotation_curve = <<>>
    /\ plan = <<>>

ZigzagNext ==
    \/ GenerateAlignmentFrames
    \/ GenerateZigzagMovement
    \/ CreateVideo

ZigzagSpec == ZigzagInit /\ [][ZigzagNext]_vars

\* where the start keyframe of the i-th segment stands in the list of the
\* rotating and zigzag styles (i = 1 for the first)
StartIndex(i) == (i - 1) * 3 + ApproachCount(i - 1) + 1

\* the corners in clockwise order: 0 top-left, 1 top-right, 2 bottom-right,
\* 3 bottom-left
Corner(c) ==
    CASE c = 0 -> <<0, 0>>
      [] c = 1 -> <<CanvasWidth - CutSize, 0>>
      [] c = 2 -> <<CanvasWidth - CutSize, CanvasHeight - CutSize>>
      [] c = 3 -> <<0, CanvasHeight - CutSize>>

\* C24: in the zigzag style the k-th segment-start keyframe (k = 0, 1, ...)
\* is at the corner k mod 4 of the clockwise order top-left, top-right,
\* bottom-right, bottom-left, the final keyframe is at the corner
\* num_alignments mod 4, and every keyframe has rotation 0.
C24_ZigzagCorners ==
    (HasKeyframes /\ movement_style = "zigzag") =>
        /\ \A i \in 1 .. Len(alignment_frames) :
               << keyframes[StartIndex(i)].x, keyframes[StartIndex(i)].y >>
                   = Corner((i - 1) % 4)
        /\ << keyframes[Len(keyframes)].x, keyframes[Len(keyframes)].y >>
               = Corner(Len(alignment_frames) % 4)
        /\ \A j \in 1 .. Len(keyframes) : keyframes[j].rotation = 0

\* zigzag keyframes of five alignments: the fifth segment starts at the
\* top-left corner again and the final keyframe is at the top-right
C24_Witness ==
    /\ HasKeyframes
    /\ movement_style = "zigzag"
    /\ Len(alignment_frames) = 5
    /\ total_frames > 6
    /\ keyframes[StartIndex(4)].x = 0
    /\ keyframes[StartIndex(4)].y = CanvasHeight - CutSize
    /\ keyframes[StartIndex(5)].x = 0
    /\ keyframes[StartIndex(5)].y = 0
    /\ keyframes[Len(keyframes)].x = CanvasWidth - CutSize

\* the curves put the piece on the alignment target, unrotated, at output
\* frame k
AlignedAt(k) ==
    /\ x_curve[k] = Num(AlignX)
    /\ y_curve[k] = Num(AlignY)
    /\ rotation_curve[k] = Num(0)

\* the output frames of the hold of the i-th alignment
HoldInterval(i) ==
    { k \in alignment_frames[i] .. alignment_frames[i] + UsedHoldFrames(i) - 1 :
          k < total_frames }

\* C25: in every movement style the piece stays aligned for the whole hold:
\* at every output frame k with f <= k < f + hold_frames and
\* k < total_frames, for every alignment frame f, the interpolated x and y
\* are the alignment target and the interpolated rotation is 0, also where
\* holds or segment boundaries of neighbouring alignments overlap.
C25_AlignedThroughHold ==
    Rendered =>
        \A i \in 1 .. Len(alignment_frames) :
            \A k \in HoldInterval(i) : AlignedAt(k)

\* a rendered run whose first hold is still running when the second segment
\* starts and when the second alignment arrives, and whose second hold ends
\* inside the video
C25_WitnessOf(style) ==
    /\ Rendered
    /\ movement_style = style
    /\ Len(alignment_frames) = 2
    /\ alignment_frames[1] < alignment_frames[2]
    /\ alignment_frames[2] < alignment_frames[1] + UsedHoldFrames(1)
    /\ UsedHoldFrames(2) >= 2
    /\ alignment_frames[2] + UsedHoldFrames(2) - 1 < total_frames
    /\ AlignedAt(alignment_frames[2] + UsedHoldFrames(2) - 1)

C25_Witness == C25_WitnessOf("chaotic")
C25_WitnessRotating == C25_WitnessOf("rotating")
C25_WitnessZigzag == C25_WitnessOf("zigzag")

====
